---- MODULE Spec2Model ----
(***************************************************************************)
(* Model of the active-set QP solver of casadi/solvers/conic_activeset.cpp *)
(* (ConicActiveSet::eval and the casadi_qp_* kernels it drives).           *)
(*                                                                         *)
(* Numbers.  A double is modelled as a triple <<n, d, k>>:                 *)
(*   d > 0  : the finite value (n/d) * DMIN^k, k in {-1, 0, 1}, n/d in     *)
(*            lowest terms; zero is <<0, 1, 0>>.  k = 0 is the ordinary    *)
(*            scale, k = 1 the scale of DMIN (the smallest positive normal *)
(*            double), k = -1 the scale of 1/DMIN.  A sum of terms of      *)
(*            different scales is its dominant term (the smaller one is    *)
(*            absorbed by rounding), a product below the DMIN scale        *)
(*            underflows to zero, one above 1/DMIN overflows to infinity.  *)
(*   d = 0  : <<1,0,0>> is +inf, <<-1,0,0>> is -inf, <<0,0,0>> is NaN.     *)
(* Numerators and denominators are 32-bit integers, so a nonzero value of  *)
(* the ordinary scale exceeds 1e-10 in magnitude: the                      *)
(* hard-coded thresholds 1e-12, 1e-14 and 1e-16 separate the ordinary      *)
(* scale from the DMIN scale.                                              *)
(***************************************************************************)
EXTENDS Integers, Sequences, FiniteSets, TLC

VARIABLES qp_m, pc, index, sign, r_index, r_sign, iter, flag, res, npass, nstep

vars == <<qp_m, pc, index, sign, r_index, r_sign, iter, flag, res, npass, nstep>>

---------------------------------------------------------------------------
(* Extended numbers *)

NaN == <<0, 0, 0>>
PInf == <<1, 0, 0>>
MInf == <<-1, 0, 0>>
Zero == <<0, 1, 0>>

\* A local variable: the value x under the name F binds
Let(x, F(_)) == F(x)

Abs(i) == IF i < 0 THEN -i ELSE i

RECURSIVE GCD(_, _)
GCD(a, b) == IF b = 0 THEN a ELSE GCD(b, a % b)

\* The finite value (n/d) * DMIN^k in canonical form, d # 0
Norm(n, d, k) ==
  IF n = 0 THEN Zero
  ELSE Let(GCD(Abs(n), Abs(d)) * (IF d < 0 THEN -1 ELSE 1), LAMBDA g :
         <<n \div g, d \div g, k>>)

\* An ordinary rational, an integer
Q(n, d) == Norm(n, d, 0)
I(n) == <<n, 1, 0>>

IsNaN(a) == a[2] = 0 /\ a[1] = 0
IsInf(a) == a[2] = 0 /\ a[1] # 0
IsFin(a) == a[2] # 0
IsZero(a) == a[2] # 0 /\ a[1] = 0
Sgn(a) == IF a[1] > 0 THEN 1 ELSE IF a[1] < 0 THEN -1 ELSE 0
InfOf(s) == IF s < 0 THEN MInf ELSE PInf

\* Order of magnitude with sign: 0 zero, 1 DMIN scale, 2 ordinary, 3 1/DMIN, 4 inf
Key(a) == IF IsInf(a) THEN 4 * Sgn(a) ELSE Sgn(a) * (2 - a[3])

\* The comparisons of doubles: every comparison with NaN is false, != is true
Lt(a, b) ==
  /\ ~IsNaN(a) /\ ~IsNaN(b)
  /\ \/ Key(a) < Key(b)
     \/ Key(a) = Key(b) /\ IsFin(a) /\ a[1] * b[2] < b[1] * a[2]
Gt(a, b) == Lt(b, a)
Eq(a, b) == ~IsNaN(a) /\ ~IsNaN(b) /\ a = b
Ne(a, b) == ~Eq(a, b)
Le(a, b) == Lt(a, b) \/ Eq(a, b)
Ge(a, b) == Le(b, a)

Neg(a) == <<-a[1], a[2], a[3]>>

Add(a, b) ==
  IF IsNaN(a) \/ IsNaN(b) THEN NaN
  ELSE IF IsInf(a) THEN (IF IsInf(b) /\ b # a THEN NaN ELSE a)
  ELSE IF IsInf(b) THEN b
  ELSE IF IsZero(a) THEN b
  ELSE IF IsZero(b) THEN a
  ELSE IF a[3] < b[3] THEN a
  ELSE IF b[3] < a[3] THEN b
  ELSE Norm(a[1] * b[2] + b[1] * a[2], a[2] * b[2], a[3])

Sub(a, b) == Add(a, Neg(b))

Mul(a, b) ==
  IF IsNaN(a) \/ IsNaN(b) THEN NaN
  ELSE IF IsInf(a) \/ IsInf(b)
    THEN (IF IsZero(a) \/ IsZero(b) THEN NaN ELSE InfOf(Sgn(a) * Sgn(b)))
  ELSE IF IsZero(a) \/ IsZero(b) THEN Zero
  ELSE IF a[3] + b[3] > 1 THEN Zero
  ELSE IF a[3] + b[3] < -1 THEN InfOf(Sgn(a) * Sgn(b))
  ELSE Norm(a[1] * b[1], a[2] * b[2], a[3] + b[3])

Div(a, b) ==
  IF IsNaN(a) \/ IsNaN(b) THEN NaN
  ELSE IF IsInf(a)
    THEN (IF IsInf(b) THEN NaN
          ELSE InfOf(Sgn(a) * (IF Sgn(b) < 0 THEN -1 ELSE 1)))
  ELSE IF IsInf(b) THEN Zero
  ELSE IF IsZero(b) THEN (IF IsZero(a) THEN NaN ELSE InfOf(Sgn(a)))
  ELSE IF IsZero(a) THEN Zero
  ELSE IF a[3] - b[3] > 1 THEN Zero
  ELSE IF a[3] - b[3] < -1 THEN InfOf(Sgn(a) * Sgn(b))
  ELSE Norm(a[1] * b[2], a[2] * b[1], a[3] - b[3])

fabs(a) == <<Abs(a[1]), a[2], a[3]>>
\* fmax and fmin return the other argument when one is NaN
fmax(a, b) == IF IsNaN(a) THEN b ELSE IF IsNaN(b) THEN a
              ELSE IF Lt(a, b) THEN b ELSE a
fmin(a, b) == IF IsNaN(a) THEN b ELSE IF IsNaN(b) THEN a
              ELSE IF Lt(b, a) THEN b ELSE a
isinf(a) == IsInf(a)

\* Comparisons with the hard-coded thresholds 1e-12, 1e-14, 1e-16
AbsBelowThreshold(a) == (IsFin(a) /\ a[3] = 1) \/ IsZero(a)
AbsAtLeastThreshold(a) == ~IsNaN(a) /\ ~AbsBelowThreshold(a)
AboveThreshold(a) == Key(a) >= 2
AtMostThreshold(a) == ~IsNaN(a) /\ Key(a) <= 1

---------------------------------------------------------------------------
(* Dense vectors and matrices.  A vector is a function on 0..n-1; the QP   *)
(* data H (nx x nx), A (na x nx) are integer-valued and stored with a      *)
(* dense sparsity pattern, indexed <<row, column>>.                        *)

\* Smallest strictly positive number (std::numeric_limits<double>::min())
DMIN == <<1, 1, 1>>

\* y + t[lo] + ... + t[hi], accumulated in index order
RECURSIVE FoldAdd(_, _, _, _)
FoldAdd(y, t, lo, hi) ==
  IF lo > hi THEN y ELSE FoldAdd(Add(y, t[lo]), t, lo + 1, hi)

\* casadi_mv, row r of y += A*x for the na x nx matrix a
mv_row(a, ncol, x, y, r) ==
  FoldAdd(y, [c \in 0..(ncol - 1) |-> Mul(I(a[<<r, c>>]), x[c])], 0, ncol - 1)

\* casadi_mv with tr=1, entry c of y += A'*x for the nrow x ncol matrix a
mv_tr_row(a, nrow, x, y, c) ==
  FoldAdd(y, [r \in 0..(nrow - 1) |-> Mul(I(a[<<r, c>>]), x[r])], 0, nrow - 1)

\* casadi_dot
casadi_dot(n, x, y) ==
  FoldAdd(Zero, [i \in 0..(n - 1) |-> Mul(x[i], y[i])], 0, n - 1)

\* casadi_bilin, x'*H*y accumulated column by column
casadi_bilin(h, n, x, y) ==
  FoldAdd(Zero,
          [c \in 0..(n - 1) |->
             FoldAdd(Zero, [r \in 0..(n - 1) |->
                              Mul(x[r], Mul(I(h[<<r, c>>]), y[c]))], 0, n - 1)],
          0, n - 1)

\* The increasing sequence of the elements of a finite set of integers
RECURSIVE SeqOf(_)
SeqOf(S) ==
  IF S = {} THEN <<>>
  ELSE LET lo == CHOOSE x \in S : \A y \in S : x <= y
       IN <<lo>> \o SeqOf(S \ {lo})

RemoveAt(s, j) == [i \in 1..(Len(s) - 1) |-> IF i < j THEN s[i] ELSE s[i + 1]]

\* Determinant of the integer matrix M restricted to rows rs and columns cs
RECURSIVE Det(_, _, _)
RECURSIVE DetSum(_, _, _, _)
Det(M, rs, cs) == IF Len(rs) = 0 THEN 1 ELSE DetSum(M, rs, cs, 1)
DetSum(M, rs, cs, j) ==
  IF j > Len(cs) THEN 0
  ELSE (IF M[<<rs[1], cs[j]>>] = 0 THEN 0
        ELSE (IF j % 2 = 1 THEN 1 ELSE -1) * M[<<rs[1], cs[j]>>]
             * Det(M, Tail(rs), RemoveAt(cs, j)))
       + DetSum(M, rs, cs, j + 1)

Transpose(M, n) == [p \in (0..(n - 1)) \X (0..(n - 1)) |-> M[<<p[2], p[1]>>]]

\* Cofactor of entry <<r, c>> of the n x n matrix M
Cofactor(M, n, r, c) ==
  (IF (r + c) % 2 = 0 THEN 1 ELSE -1)
  * Det(M, SeqOf((0..(n - 1)) \ {r}), SeqOf((0..(n - 1)) \ {c}))

\* Rank of the n x n integer matrix M: the size of a largest nonzero minor
Minors(M, n, k) ==
  {p \in (SUBSET (0..(n - 1))) \X (SUBSET (0..(n - 1))) :
     /\ Cardinality(p[1]) = k /\ Cardinality(p[2]) = k
     /\ Det(M, SeqOf(p[1]), SeqOf(p[2])) # 0}
Rank(M, n) == CHOOSE k \in 0..n :
                /\ Minors(M, n, k) # {}
                /\ \A j \in (k + 1)..n : Minors(M, n, j) = {}

\* A basis of the null space {v : M*v = 0}, one integer vector per column
\* outside a largest nonsingular minor <<R, C>>, by Cramer's rule
Repl(C, c, f) == [i \in 1..Len(C) |-> IF C[i] = c THEN f ELSE C[i]]

NullBasis(M, n) ==
  Let(CHOOSE q \in Minors(M, n, Rank(M, n)) : TRUE, LAMBDA p :
    Let(<<SeqOf(p[1]), SeqOf(p[2]), SeqOf((0..(n - 1)) \ p[2])>>, LAMBDA RCF :
      [j \in 1..Len(RCF[3]) |->
         [i \in 0..(n - 1) |->
            IF i = RCF[3][j] THEN Det(M, RCF[1], RCF[2])
            ELSE IF i \in p[2]
              THEN -Det(M, RCF[1], Repl(RCF[2], i, RCF[3][j]))
            ELSE 0]]))

---------------------------------------------------------------------------
(* The linear-algebra primitives the kernels call, by their contracts.     *)
(* The factorized matrix is kept as m.kkt; its factors are not modelled.   *)

\* casadi_qr_singular: the nullity of the factorized n x n matrix
casadi_qr_singular(M, n) == n - Rank(M, n)

\* casadi_qr_solve: the solution x of M*x = b (tr = 0) or M'*x = b (tr = 1)
casadi_qr_solve(b, tr, M, n) ==
  LET d == Det(M, SeqOf(0..(n - 1)), SeqOf(0..(n - 1)))
  IN [i \in 0..(n - 1) |->
        FoldAdd(Zero,
                [j \in 0..(n - 1) |->
                   Mul(Q(IF tr = 0 THEN Cofactor(M, n, j, i)
                         ELSE Cofactor(M, n, i, j), d), b[j])],
                0, n - 1)]

\* casadi_qr_colcomb: the k-th null-space vector of the factorized matrix
casadi_qr_colcomb(M, n, k) ==
  [i \in 0..(n - 1) |-> I(NullBasis(M, n)[k + 1][i])]

---------------------------------------------------------------------------
(* The kernels on casadi_qp_mem.  m is the memory record; its fields keep  *)
(* the names of the struct.                                                *)

Active(m, i) == Ne(m.lam[i], Zero)

\* casadi_qp_pr: largest constraint violation and its index
RECURSIVE qp_pr_loop(_, _, _, _)
qp_pr_loop(m, i, pr, ipr) ==
  IF i >= m.nz THEN <<pr, ipr>>
  ELSE IF Gt(m.z[i], Add(m.ubz[i], pr))
         THEN qp_pr_loop(m, i + 1, Sub(m.z[i], m.ubz[i]), i)
  ELSE IF Lt(m.z[i], Sub(m.lbz[i], pr))
         THEN qp_pr_loop(m, i + 1, Sub(m.lbz[i], m.z[i]), i)
  ELSE qp_pr_loop(m, i + 1, pr, ipr)

casadi_qp_pr(m) ==
  Let(qp_pr_loop(m, 0, Zero, -1), LAMBDA p :
    [m EXCEPT !.pr = p[1], !.ipr = p[2]])

\* casadi_qp_du: largest dual infeasibility and its index
RECURSIVE qp_du_loop(_, _, _, _)
qp_du_loop(m, i, du, idu) ==
  IF i >= m.nx THEN <<du, idu>>
  ELSE IF Gt(m.infeas[i], du) THEN qp_du_loop(m, i + 1, m.infeas[i], i)
  ELSE IF Lt(m.infeas[i], Neg(du)) THEN qp_du_loop(m, i + 1, Neg(m.infeas[i]), i)
  ELSE qp_du_loop(m, i + 1, du, idu)

casadi_qp_du(m) ==
  Let(qp_du_loop(m, 0, Zero, -1), LAMBDA p :
    [m EXCEPT !.du = p[1], !.idu = p[2]])

\* qp_cost without the linear term
qp_cost_quadratic(m) == Div(casadi_bilin(m.h, m.nx, m.z, m.z), I(2))

\* The objective f = x'Hx/2 + g'x at z[0..nx)
qp_cost(m) ==
  Add(Div(casadi_bilin(m.h, m.nx, m.z, m.z), I(2)),
      casadi_dot(m.nx, m.z, [i \in 0..(m.nx - 1) |-> I(m.g[i])]))

\* calc_dependent_z leaving z[nx:] as it is
calc_dependent_z_stale(m) == m.z

\* Calculate z[nx:] = A*z[:nx]
calc_dependent_z(m) ==
  [i \in 0..(m.nz - 1) |->
     IF i < m.nx THEN m.z[i]
     ELSE mv_row(m.a, m.nx, m.z, Zero, i - m.nx)]

\* calc_dependent_lam without the clamp to the side of the sign
calc_dependent_lam_unclamped(m, grad) ==
  [i \in 0..(m.nz - 1) |->
     IF i >= m.nx \/ Eq(m.lam[i], Zero) THEN m.lam[i] ELSE Neg(grad[i])]

\* Calculate lam[:nx] without changing the sign; grad is the gradient of
\* the Lagrangian without the bound multipliers
calc_dependent_lam(m, grad) ==
  [i \in 0..(m.nz - 1) |->
     IF i >= m.nx THEN m.lam[i]
     ELSE IF Gt(m.lam[i], Zero) THEN fmax(Neg(grad[i]), DMIN)
     ELSE IF Lt(m.lam[i], Zero) THEN fmin(Neg(grad[i]), Neg(DMIN))
     ELSE m.lam[i]]

\* casadi_qp_calc_dependent
casadi_qp_calc_dependent(m) ==
  Let(calc_dependent_z(m), LAMBDA z :
   Let([i \in 0..(m.nx - 1) |->
          mv_tr_row(m.a, m.na, [r \in 0..(m.na - 1) |-> m.lam[m.nx + r]],
                    mv_row(m.h, m.nx, z, I(m.g[i]), i), i)], LAMBDA grad :
    Let(calc_dependent_lam(m, grad), LAMBDA lam :
      casadi_qp_du(casadi_qp_pr(
        [m EXCEPT
           !.f = qp_cost(m),
           !.z = z, !.lam = lam,
           !.infeas = [i \in 0..(m.nx - 1) |-> Add(grad[i], lam[i])]])))))

\* casadi_qp_pr_index: <<index, sign>>
casadi_qp_pr_index(m, sgn) ==
  IF Eq(m.lam[m.ipr], Zero)
    THEN <<m.ipr, IF Lt(m.z[m.ipr], m.lbz[m.ipr]) THEN -1 ELSE 1>>
    ELSE <<-1, sgn>>

\* casadi_qp_du_check: dual infeasibility from setting lam[i] = 0
RECURSIVE du_check_loop(_, _, _, _)
du_check_loop(m, i, k, new_du) ==
  IF k >= m.nx THEN new_du
  ELSE du_check_loop(m, i, k + 1,
         fmax(new_du, fabs(Sub(m.infeas[k],
                               Mul(I(m.a[<<i - m.nx, k>>]), m.lam[i])))))

casadi_qp_du_check(m, i) ==
  IF i < m.nx THEN fabs(Sub(m.infeas[i], m.lam[i]))
  ELSE du_check_loop(m, i, 0, Zero)

\* casadi_qp_du_index: <<index, sign>>
du_index_w(m) ==
  Let(IF Gt(m.infeas[m.idu], Zero) THEN I(-1) ELSE I(1), LAMBDA w0 :
    [i \in 0..(m.nz - 1) |->
       IF i < m.nx THEN (IF i = m.idu THEN w0 ELSE Zero)
       ELSE Add(Zero, Mul(I(m.a[<<i - m.nx, m.idu>>]), w0))])

RECURSIVE du_index_loop(_, _, _, _, _)
du_index_loop(m, w, i, best_ind, best_w) ==
  IF i >= m.nz THEN best_ind
  ELSE IF Eq(w[i], Zero) THEN du_index_loop(m, w, i + 1, best_ind, best_w)
  ELSE IF (IF Gt(w[i], Zero) THEN Ge(m.lam[i], Zero) ELSE Le(m.lam[i], Zero))
         THEN du_index_loop(m, w, i + 1, best_ind, best_w)
  ELSE IF Gt(casadi_qp_du_check(m, i), m.du)
         THEN du_index_loop(m, w, i + 1, best_ind, best_w)
  ELSE IF Gt(fabs(w[i]), best_w)
         THEN du_index_loop(m, w, i + 1, i, fabs(w[i]))
  ELSE du_index_loop(m, w, i + 1, best_ind, best_w)

casadi_qp_du_index(m, sgn) ==
  Let(du_index_loop(m, du_index_w(m), 0, -1, Zero), LAMBDA best_ind :
    IF best_ind >= 0 THEN <<best_ind, 0>> ELSE <<-1, sgn>>)

\* casadi_qp_kkt_column: column i of the KKT matrix under activity sgn
casadi_qp_kkt_column(m, i, sgn) ==
  [r \in 0..(m.nz - 1) |->
     IF i < m.nx
       THEN (IF sgn = 0
               THEN (IF r < m.nx THEN m.h[<<r, i>>] ELSE m.a[<<r - m.nx, i>>])
               ELSE (IF r = i THEN 1 ELSE 0))
       ELSE (IF sgn = 0
               THEN (IF r = i THEN -1 ELSE 0)
               ELSE (IF r < m.nx THEN m.a[<<i - m.nx, r>>] ELSE 0))]

\* casadi_qp_kkt: the matrix whose column i is the row of the KKT system for i
casadi_qp_kkt(m) ==
  [p \in (0..(m.nz - 1)) \X (0..(m.nz - 1)) |->
     casadi_qp_kkt_column(m, p[2], IF Eq(m.lam[p[2]], Zero) THEN 0 ELSE 1)[p[1]]]

\* casadi_qp_kkt_dot: v'*column, without forming the column
casadi_qp_kkt_dot(m, v, i, sgn) ==
  IF i < m.nx
    THEN (IF sgn = 0
            THEN FoldAdd(
                   FoldAdd(Zero, [r \in 0..(m.nx - 1) |->
                                    Mul(v[r], I(m.h[<<r, i>>]))], 0, m.nx - 1),
                   [r \in 0..(m.na - 1) |->
                      Mul(v[m.nx + r], I(m.a[<<r, i>>]))], 0, m.na - 1)
            ELSE v[i])
    ELSE (IF sgn = 0
            THEN Neg(v[i])
            ELSE FoldAdd(Zero, [c \in 0..(m.nx - 1) |->
                                  Mul(v[c], I(m.a[<<i - m.nx, c>>]))], 0, m.nx - 1))

\* casadi_qp_kkt_residual
casadi_qp_kkt_residual(m) ==
  [i \in 0..(m.nz - 1) |->
     IF Gt(m.lam[i], Zero) THEN Sub(m.ubz[i], m.z[i])
     ELSE IF Lt(m.lam[i], Zero) THEN Sub(m.lbz[i], m.z[i])
     ELSE IF i < m.nx THEN Sub(m.lam[i], m.infeas[i])
     ELSE m.lam[i]]

\* casadi_qp_factorize
casadi_qp_factorize(m) ==
  Let(casadi_qp_kkt(m), LAMBDA K :
    [m EXCEPT !.kkt = K, !.sing = casadi_qr_singular(K, m.nz)])

\* casadi_qp_zero_blocking: <<ret, index, sign>>
RECURSIVE zero_blocking_loop(_, _, _, _, _, _)
zero_blocking_loop(m, e, i, ret, ind, sgn) ==
  IF i >= m.nz THEN <<ret, ind, sgn>>
  ELSE IF Gt(Neg(m.dz[i]), Zero) /\ Le(m.z[i], Sub(m.lbz[i], e))
         THEN zero_blocking_loop(m, e, i + 1, 1, i, -1)
  ELSE IF Gt(m.dz[i], Zero) /\ Ge(m.z[i], Add(m.ubz[i], e))
         THEN zero_blocking_loop(m, e, i + 1, 1, i, 1)
  ELSE zero_blocking_loop(m, e, i + 1, ret, ind, sgn)

casadi_qp_zero_blocking(m, e, ind, sgn) == zero_blocking_loop(m, e, 0, 0, ind, sgn)

\* casadi_qp_primal_blocking: <<tau, index, sign>>
RECURSIVE primal_blocking_loop(_, _, _, _, _, _)
primal_blocking_loop(m, e, i, tau, ind, sgn) ==
  IF i >= m.nz THEN <<tau, ind, sgn>>
  ELSE IF Eq(m.dz[i], Zero) THEN primal_blocking_loop(m, e, i + 1, tau, ind, sgn)
  ELSE Let(Add(m.z[i], Mul(tau, m.dz[i])), LAMBDA trial_z :
        Let(IF Lt(m.dz[i], Zero) /\ Lt(trial_z, Sub(m.lbz[i], e))
              THEN <<Div(Sub(Sub(m.lbz[i], e), m.z[i]), m.dz[i]),
                     IF Lt(m.lam[i], Zero) THEN -1 ELSE i, -1>>
            ELSE IF Gt(m.dz[i], Zero) /\ Gt(trial_z, Add(m.ubz[i], e))
              THEN <<Div(Sub(Add(m.ubz[i], e), m.z[i]), m.dz[i]),
                     IF Gt(m.lam[i], Zero) THEN -1 ELSE i, 1>>
            ELSE <<tau, ind, sgn>>, LAMBDA t :
          IF Le(t[1], Zero) THEN t
          ELSE primal_blocking_loop(m, e, i + 1, t[1], t[2], t[3])))

casadi_qp_primal_blocking(m, e, ind, sgn) ==
  Let(casadi_qp_zero_blocking(m, e, ind, sgn), LAMBDA zb :
    IF zb[1] # 0 THEN <<Zero, zb[2], zb[3]>>
    ELSE primal_blocking_loop(m, e, 0, m.tau, ind, sgn))

\* casadi_qp_dual_breakpoints: the list of <<tau, index>>, entry j of the
\* arrays tau_list, ind_list at position j + 1
InsertAt(L, loc, x) == SubSeq(L, 1, loc - 1) \o <<x>> \o SubSeq(L, loc, Len(L))

\* BreakpointLoc inserting every breakpoint at the head of the list
BreakpointLoc_head(L, new_tau) == 1

BreakpointLoc(L, new_tau) ==
  IF \E q \in 1..(Len(L) - 1) : Lt(new_tau, L[q][1])
    THEN CHOOSE q \in 1..(Len(L) - 1) :
           /\ Lt(new_tau, L[q][1])
           /\ \A q2 \in 1..(q - 1) : ~Lt(new_tau, L[q2][1])
    ELSE Len(L)

RECURSIVE dual_breakpoints_loop(_, _, _, _)
dual_breakpoints_loop(m, tau, i, L) ==
  IF i >= m.nz THEN L
  ELSE IF Eq(m.dlam[i], Zero) \/ Eq(m.lam[i], Zero)
         THEN dual_breakpoints_loop(m, tau, i + 1, L)
  ELSE Let(Add(m.lam[i], Mul(tau, m.dlam[i])), LAMBDA trial_lam :
         IF (IF Gt(m.lam[i], Zero) THEN Ge(trial_lam, Zero)
             ELSE Le(trial_lam, Zero))
           THEN dual_breakpoints_loop(m, tau, i + 1, L)
           ELSE Let(Div(Neg(m.lam[i]), m.dlam[i]), LAMBDA new_tau :
                  dual_breakpoints_loop(m, tau, i + 1,
                    InsertAt(L, BreakpointLoc(L, new_tau), <<new_tau, i>>))))

casadi_qp_dual_breakpoints(m, tau) ==
  dual_breakpoints_loop(m, tau, 0, << <<tau, -1>> >>)

\* casadi_qp_dual_blocking: <<du_index, memory>>
RECURSIVE dual_blocking_inner(_, _, _, _, _, _, _)
dual_blocking_inner(m, e, dtau, tau_k, k, tau, du_index) ==
  IF k >= m.nx THEN <<tau, du_index>>
  ELSE Let(Add(m.infeas[k], Mul(dtau, m.tinfeas[k])), LAMBDA new_infeas :
         IF ~Gt(fabs(new_infeas), e)
           THEN dual_blocking_inner(m, e, dtau, tau_k, k + 1, tau, du_index)
           ELSE Let(fmax(Zero,
                         Add(tau_k,
                             Div(Sub(IF Gt(new_infeas, Zero) THEN e ELSE Neg(e),
                                     m.infeas[k]),
                                 m.tinfeas[k]))), LAMBDA tau1 :
                  IF Lt(tau1, tau)
                    THEN dual_blocking_inner(m, e, dtau, tau_k, k + 1, tau1, k)
                    ELSE dual_blocking_inner(m, e, dtau, tau_k, k + 1, tau,
                                             du_index)))

\* The update of tinfeas when the multiplier of constraint i leaves its sign
dual_blocking_tinfeas(m, i) ==
  IF i < 0 \/ m.neverzero[i] THEN m
  ELSE [m EXCEPT !.tinfeas =
          [k \in 0..(m.nx - 1) |->
             IF i < m.nx
               THEN (IF k = i THEN Sub(m.tinfeas[k], m.dlam[i])
                     ELSE m.tinfeas[k])
               ELSE Sub(m.tinfeas[k],
                        Mul(I(m.a[<<i - m.nx, k>>]), m.dlam[i]))]]

RECURSIVE dual_blocking_loop(_, _, _, _, _, _)
dual_blocking_loop(m, e, L, j, tau_k, du_index) ==
  IF j > Len(L) THEN <<du_index, m>>
  ELSE Let(Sub(L[j][1], tau_k), LAMBDA dtau :
        Let(dual_blocking_inner(m, e, dtau, tau_k, 0, m.tau, du_index), LAMBDA b :
         Let(fmin(Sub(b[1], tau_k), dtau), LAMBDA alpha :
          Let([m EXCEPT !.tau = b[1],
                        !.infeas = [k \in 0..(m.nx - 1) |->
                                      Add(m.infeas[k], Mul(alpha, m.tinfeas[k]))]],
              LAMBDA m1 :
            IF b[2] >= 0 \/ L[j][2] < 0 THEN <<b[2], m1>>
            ELSE dual_blocking_loop(dual_blocking_tinfeas(m1, L[j][2]), e, L,
                                    j + 1, L[j][1], b[2])))))

casadi_qp_dual_blocking(m, e) ==
  dual_blocking_loop(m, e, casadi_qp_dual_breakpoints(m, m.tau), 1, Zero, -1)

\* casadi_qp_take_step without the restoration of the signs of lam
casadi_qp_take_step_unsigned(m) ==
  [m EXCEPT !.z = [i \in 0..(m.nz - 1) |-> Add(m.z[i], Mul(m.tau, m.dz[i]))],
            !.lam = [i \in 0..(m.nz - 1) |-> Add(m.lam[i], Mul(m.tau, m.dlam[i]))]]

\* casadi_qp_take_step allowing no component to change its sign
casadi_qp_take_step_fixed(m) ==
  Let([i \in 0..(m.nz - 1) |->
         IF Gt(m.lam[i], Zero) THEN 1
         ELSE IF Lt(m.lam[i], Zero) THEN -1 ELSE 0], LAMBDA iw :
   Let([i \in 0..(m.nz - 1) |-> Add(m.lam[i], Mul(m.tau, m.dlam[i]))], LAMBDA lam :
      [m EXCEPT !.z = [i \in 0..(m.nz - 1) |-> Add(m.z[i], Mul(m.tau, m.dz[i]))],
                !.lam = [i \in 0..(m.nz - 1) |->
                           IF iw[i] = -1 THEN fmin(lam[i], Neg(DMIN))
                           ELSE IF iw[i] = 1 THEN fmax(lam[i], DMIN)
                           ELSE Zero]]))

\* casadi_qp_take_step
casadi_qp_take_step(m) ==
  Let([i \in 0..(m.nz - 1) |->
         IF Gt(m.lam[i], Zero) THEN 1
         ELSE IF Lt(m.lam[i], Zero) THEN -1 ELSE 0], LAMBDA iw :
   Let([i \in 0..(m.nz - 1) |-> Add(m.lam[i], Mul(m.tau, m.dlam[i]))], LAMBDA lam :
    Let([i \in 0..(m.nz - 1) |->
           IF m.neverzero[i]
              /\ (IF iw[i] < 0 THEN Gt(lam[i], Zero) ELSE Lt(lam[i], Zero))
             THEN -iw[i] ELSE iw[i]], LAMBDA iw1 :
      [m EXCEPT !.z = [i \in 0..(m.nz - 1) |-> Add(m.z[i], Mul(m.tau, m.dz[i]))],
                !.lam = [i \in 0..(m.nz - 1) |->
                           IF iw1[i] = -1 THEN fmin(lam[i], Neg(DMIN))
                           ELSE IF iw1[i] = 1 THEN fmax(lam[i], DMIN)
                           ELSE Zero]])))

\* casadi_qp_linesearch: <<memory, index, sign>>
casadi_qp_linesearch(m) ==
  Let(casadi_qp_primal_blocking(
        [m EXCEPT !.tau = I(1)], fmax(m.pr, Div(m.du, I(m.du_to_pr))), -1, 0),
      LAMBDA pb :
    Let(casadi_qp_dual_blocking(
          [m EXCEPT !.tau = pb[1]], fmax(Mul(m.pr, I(m.du_to_pr)), m.du)),
        LAMBDA db :
      <<casadi_qp_take_step(db[2]),
        IF db[1] >= 0 THEN -1 ELSE pb[2],
        IF db[1] >= 0 THEN 0 ELSE pb[3]>>))

\* casadi_qp_flip_check: <<ret, r_index, r_sign, dz>>
flip_check_skip(m, ind, dz, w, e, i) ==
  \/ i = ind
  \/ (IF Eq(m.lam[i], Zero) THEN m.neverlower[i] /\ m.neverupper[i]
      ELSE m.neverzero[i])
  \/ AbsBelowThreshold(dz[i])
  \/ AbsBelowThreshold(
       casadi_qp_kkt_dot(m, w, i, IF Eq(m.lam[i], Zero) THEN 1 ELSE 0))
  \/ (Ne(m.lam[i], Zero) /\ Gt(casadi_qp_du_check(m, i), e))

flip_check_slack(m, i) ==
  IF Eq(m.lam[i], Zero) THEN Zero
  ELSE IF Gt(m.lam[i], Zero) THEN Sub(m.ubz[i], m.z[i])
  ELSE Sub(m.z[i], m.lbz[i])

flip_check_sign(m, i) ==
  IF Eq(m.lam[i], Zero)
    THEN (IF Ge(Sub(m.lbz[i], m.z[i]), Sub(m.z[i], m.ubz[i])) THEN -1 ELSE 1)
    ELSE 0

RECURSIVE flip_check_loop(_, _, _, _, _, _, _, _, _)
flip_check_loop(m, ind, dz, w, e, i, best_slack, r_ind, r_sgn) ==
  IF i >= m.nz THEN <<r_ind, r_sgn>>
  ELSE IF ~flip_check_skip(m, ind, dz, w, e, i)
          /\ Gt(flip_check_slack(m, i), best_slack)
    THEN flip_check_loop(m, ind, dz, w, e, i + 1, flip_check_slack(m, i), i,
                         flip_check_sign(m, i))
    ELSE flip_check_loop(m, ind, dz, w, e, i + 1, best_slack, r_ind, r_sgn)

casadi_qp_flip_check(m, ind, sgn, r_ind, r_sgn, e) ==
  Let(casadi_qr_solve(
        [i \in 0..(m.nz - 1) |-> I(casadi_qp_kkt_column(m, ind, sgn)[i])],
        0, m.kkt, m.nz), LAMBDA dz :
    IF AbsAtLeastThreshold(dz[ind]) THEN <<0, r_ind, r_sgn, dz>>
    ELSE Let(flip_check_loop(
               m, ind, dz,
               [i \in 0..(m.nz - 1) |->
                  I(casadi_qp_kkt_column(m, ind, IF sgn = 0 THEN 1 ELSE 0)[i])],
               e, 0, MInf, -1, 0), LAMBDA r :
           <<IF r[1] >= 0 THEN 0 ELSE 1, r[1], r[2], dz>>))

\* casadi_qp_scale_step: <<ret, r_index, r_sign, memory>>.  oob stands for
\* what the reads lam[ipr], dlam[ipr] yield when ipr = -1: "none" (the test
\* fails), "neg" (neg_ok is cleared) or "pos" (pos_ok is cleared)
scale_step_tpr(m) ==
  IF m.ipr < 0 THEN Zero
  ELSE IF Gt(m.z[m.ipr], m.ubz[m.ipr]) THEN Div(m.dz[m.ipr], m.pr)
  ELSE Div(Neg(m.dz[m.ipr]), m.pr)

scale_step_tdu(m) ==
  IF m.idu < 0 THEN Zero ELSE Div(m.tinfeas[m.idu], m.infeas[m.idu])

\* <<pos_ok, neg_ok, terr>> from the change of max(pr, du) along the step
scale_step_terr(m, tpr, tdu) ==
  IF Gt(m.pr, m.du)
    THEN <<~Gt(tpr, Zero), ~Lt(tpr, Zero), tpr>>
  ELSE IF Lt(m.pr, m.du)
    THEN <<~Gt(tdu, Zero), ~Lt(tdu, Zero), tdu>>
  ELSE IF (Gt(tpr, Zero) /\ Lt(tdu, Zero)) \/ (Lt(tpr, Zero) /\ Gt(tdu, Zero))
    THEN <<FALSE, FALSE, Zero>>
  ELSE IF Lt(fmin(tpr, tdu), Zero) THEN <<TRUE, FALSE, fmax(tpr, tdu)>>
  ELSE IF Gt(fmax(tpr, tdu), Zero) THEN <<FALSE, TRUE, fmin(tpr, tdu)>>
  ELSE <<TRUE, TRUE, Zero>>

\* The direction the multiplier of the violated constraint forbids
scale_step_restrict(m, oob) ==
  IF ~Ge(Mul(I(m.du_to_pr), m.pr), m.du) THEN "none"
  ELSE IF m.ipr < 0 THEN oob
  ELSE IF Ne(m.lam[m.ipr], Zero) /\ AboveThreshold(fabs(m.dlam[m.ipr]))
    THEN (IF Gt(m.lam[m.ipr], Zero) = Gt(m.dlam[m.ipr], Zero)
          THEN "neg" ELSE "pos")
  ELSE "none"

scale_step_ok(m, oob) ==
  Let(scale_step_terr(m, scale_step_tpr(m), scale_step_tdu(m)), LAMBDA first :
    Let(scale_step_restrict(m, oob), LAMBDA restrict :
      [pos_ok |-> first[1] /\ restrict # "pos",
       neg_ok |-> first[2] /\ restrict # "neg",
       terr |-> first[3]]))

\* One candidate of the search: <<tau, r_index, r_sign>> after index i under
\* the null-space vector w
scale_step_increase(ok, t) ==
  (Gt(ok.terr, Zero) /\ Gt(t, Zero)) \/ (Lt(ok.terr, Zero) /\ Lt(t, Zero))

scale_step_bound(m, ok, i, never, bound, sgn, best) ==
  Let(Div(Sub(bound, m.z[i]), m.dz[i]), LAMBDA tau_test :
    IF ~never /\ ~scale_step_increase(ok, tau_test)
       /\ AbsAtLeastThreshold(tau_test)
       /\ Lt(fabs(tau_test), fabs(best[1]))
      THEN <<tau_test, i, sgn>> ELSE best)

scale_step_zero(m, ok, i, best) ==
  Let(Div(Neg(m.lam[i]), m.dlam[i]), LAMBDA tau_test :
    IF ~m.neverzero[i] /\ ~scale_step_increase(ok, tau_test)
       /\ ~((Gt(tau_test, Zero) /\ ~ok.pos_ok)
            \/ (Lt(tau_test, Zero) /\ ~ok.neg_ok))
       /\ Lt(fabs(tau_test), fabs(best[1]))
      THEN <<tau_test, i, 0>> ELSE best)

scale_step_candidate(m, ok, w, i, best) ==
  IF AbsBelowThreshold(IF i < m.nx THEN m.dz[i] ELSE m.dlam[i]) THEN best
  ELSE IF AbsBelowThreshold(Sub(casadi_qp_kkt_dot(m, w, i, 0),
                                casadi_qp_kkt_dot(m, w, i, 1))) THEN best
  ELSE IF Eq(m.lam[i], Zero)
    THEN (IF AbsBelowThreshold(m.dz[i]) THEN best
          ELSE scale_step_bound(m, ok, i, m.neverupper[i], m.ubz[i], 1,
                 scale_step_bound(m, ok, i, m.neverlower[i], m.lbz[i], -1, best)))
  ELSE (IF AbsBelowThreshold(m.dlam[i]) THEN best
        ELSE scale_step_zero(m, ok, i, best))

RECURSIVE scale_step_loop(_, _, _, _, _, _)
scale_step_loop(m, ok, W, nulli, i, best) ==
  IF nulli > Len(W) THEN best
  ELSE IF i >= m.nz THEN scale_step_loop(m, ok, W, nulli + 1, 0, best)
  ELSE scale_step_loop(m, ok, W, nulli, i + 1,
         scale_step_candidate(m, ok, [j \in 0..(m.nz - 1) |-> I(W[nulli][j])],
                              i, best))

\* The best flip of the search, <<tau, r_index, r_sign>>
scale_step_best(m, oob) ==
  scale_step_loop(m, scale_step_ok(m, oob),
                  NullBasis(Transpose(m.kkt, m.nz), m.nz), 1, 0,
                  <<PInf, -1, 0>>)

casadi_qp_scale_step(m, oob) ==
  IF m.sing = 0 THEN <<0, -1, 0, m>>
  ELSE Let(scale_step_best(m, oob), LAMBDA best :
         IF best[2] < 0 THEN <<1, -1, 0, m>>
         ELSE <<0, best[2], best[3],
                [m EXCEPT
                   !.dz = [i \in 0..(m.nz - 1) |-> Mul(best[1], m.dz[i])],
                   !.dlam = [i \in 0..(m.nz - 1) |-> Mul(best[1], m.dlam[i])],
                   !.tinfeas = [i \in 0..(m.nx - 1) |->
                                  Mul(best[1], m.tinfeas[i])]]>>)

\* casadi_qp_calc_step: <<ret, r_index, r_sign, memory>>.  s is the sign of
\* the null-space vector the factorization yields when the KKT is singular
\* calc_step_dz taking the negative residual for the step
calc_step_dz_unsolved(m, s) ==
  IF m.sing = 0
    THEN casadi_qp_kkt_residual(m)
    ELSE [i \in 0..(m.nz - 1) |->
            Mul(I(s), casadi_qr_colcomb(m.kkt, m.nz, 0)[i])]

calc_step_dz(m, s) ==
  IF m.sing = 0
    THEN casadi_qr_solve(casadi_qp_kkt_residual(m), 1, m.kkt, m.nz)
    ELSE [i \in 0..(m.nz - 1) |->
            Mul(I(s), casadi_qr_colcomb(m.kkt, m.nz, 0)[i])]

\* The memory with the unscaled direction dz, dlam, tinfeas
calc_step_direction(m, s) ==
  Let(calc_step_dz(m, s), LAMBDA dz0 :
   Let([i \in 0..(m.nz - 1) |->
          IF i >= m.nx THEN dz0[i]
          ELSE IF Eq(m.lam[i], Zero) THEN Zero
          ELSE Mul(I(-1), mv_tr_row(m.a, m.na,
                                    [r \in 0..(m.na - 1) |-> dz0[m.nx + r]],
                                    mv_row(m.h, m.nx, dz0, Zero, i), i))],
       LAMBDA dlam :
    Let([i \in 0..(m.nz - 1) |->
           Let(IF i < m.nx THEN dz0[i]
               ELSE mv_row(m.a, m.nx, dz0, Zero, i - m.nx), LAMBDA d :
             IF AbsBelowThreshold(d) THEN Zero ELSE d)], LAMBDA dz :
        [m EXCEPT
           !.dz = dz, !.dlam = dlam,
           !.tinfeas = [i \in 0..(m.nx - 1) |->
                          Add(mv_tr_row(m.a, m.na,
                                        [r \in 0..(m.na - 1) |-> dlam[m.nx + r]],
                                        mv_row(m.h, m.nx, dz, Zero, i), i),
                              Mul(I(1), dlam[i]))]])))

casadi_qp_calc_step(m, s, oob) ==
  casadi_qp_scale_step(calc_step_direction(m, s), oob)

\* casadi_qp_flip: <<memory, index, sign>>

\* flip_commit committing nothing when flip_check fails
flip_commit_guarded(m, e, pick, r_ind, r_sgn) ==
  Let(casadi_qp_flip_check(m, pick[1], pick[2], r_ind, r_sgn, e), LAMBDA fc :
    casadi_qp_calc_dependent(
      [m EXCEPT !.dz = IF m.sing = 0 THEN fc[4] ELSE m.dz,
                !.lam = IF m.sing = 0 /\ fc[1] # 0 THEN m.lam
                        ELSE [m.lam EXCEPT ![pick[1]] =
                                IF pick[2] = 0 THEN Zero
                                ELSE IF pick[2] > 0 THEN DMIN ELSE Neg(DMIN)]]))

flip_commit(m, e, pick, r_ind, r_sgn) ==
  Let(casadi_qp_flip_check(m, pick[1], pick[2], r_ind, r_sgn, e), LAMBDA fc :
    Let(IF m.sing = 0 /\ fc[1] # 0 /\ fc[2] >= 0
          THEN [m.lam EXCEPT ![fc[2]] =
                  IF fc[3] = 0 THEN Zero
                  ELSE IF fc[3] > 0 THEN DMIN ELSE Neg(DMIN)]
          ELSE m.lam, LAMBDA lam1 :
      casadi_qp_calc_dependent(
        [m EXCEPT !.dz = IF m.sing = 0 THEN fc[4] ELSE m.dz,
                  !.lam = [lam1 EXCEPT ![pick[1]] =
                             IF pick[2] = 0 THEN Zero
                             ELSE IF pick[2] > 0 THEN DMIN ELSE Neg(DMIN)]])))

\* flip_pick taking every recovery target, whatever its dual error
flip_pick_any_recovery(m, e, ind, sgn, r_ind, r_sgn) ==
  IF r_ind >= 0
    THEN <<r_ind, r_sgn>>
  ELSE IF ind = -1 /\ AboveThreshold(m.tau) /\ (m.ipr >= 0 \/ m.idu >= 0)
    THEN (IF Ge(Mul(I(m.du_to_pr), m.pr), m.du)
            THEN casadi_qp_pr_index(m, sgn)
            ELSE casadi_qp_du_index(m, sgn))
  ELSE <<ind, sgn>>

\* flip_pick without the search for a feasibility-improving change
flip_pick_no_selector(m, e, ind, sgn, r_ind, r_sgn) ==
  IF r_ind >= 0 /\ (r_sgn # 0 \/ Le(casadi_qp_du_check(m, r_ind), e))
    THEN <<r_ind, r_sgn>>
  ELSE <<ind, sgn>>

\* The constraint flip acts on, <<index, sign>>
flip_pick(m, e, ind, sgn, r_ind, r_sgn) ==
  IF r_ind >= 0 /\ (r_sgn # 0 \/ Le(casadi_qp_du_check(m, r_ind), e))
    THEN <<r_ind, r_sgn>>
  ELSE IF ind = -1 /\ AboveThreshold(m.tau) /\ (m.ipr >= 0 \/ m.idu >= 0)
    THEN (IF Ge(Mul(I(m.du_to_pr), m.pr), m.du)
            THEN casadi_qp_pr_index(m, sgn)
            ELSE casadi_qp_du_index(m, sgn))
  ELSE <<ind, sgn>>

casadi_qp_flip(m, ind, sgn, r_ind, r_sgn) ==
  Let(fmax(Mul(I(m.du_to_pr), m.pr), m.du), LAMBDA e :
    Let(flip_pick(m, e, ind, sgn, r_ind, r_sgn), LAMBDA pick :
      IF pick[1] >= 0
        THEN <<flip_commit(m, e, pick, r_ind, r_sgn), -2, pick[2]>>
        ELSE <<m, pick[1], pick[2]>>))

---------------------------------------------------------------------------
(* ConicActiveSet::eval.  The inputs are drawn in Init; pc is the position *)
(* of eval, npass and nstep count the passes of the driver loop and the    *)
(* calls of casadi_qp_calc_step.                                           *)

\* max_iter_: the iteration cap the solver instance is configured with
MaxIter == 4
\* du_to_pr_
DuToPr == 2

Vec(n, S) == [0..(n - 1) -> S]
Mat(nr, nc, S) == [(0..(nr - 1)) \X (0..(nc - 1)) -> S]
ZeroVec(n) == [i \in 0..(n - 1) |-> Zero]

\* The problem shapes <<nx, na>> and the values the inputs are drawn from
Dims == {<<1, 0>>, <<1, 1>>, <<2, 0>>}
HessianOf(n) ==
  IF n = 1 THEN Mat(1, 1, {0, 1, 2})
  ELSE {[p \in (0..1) \X (0..1) |-> IF p[1] = p[2] THEN 1 ELSE 0],
        [p \in (0..1) \X (0..1) |-> 1]}
GradientValues == {-1, 0, 1}
JacobianValues == {1}
BoundPairs(n) ==
  IF n = 1
    THEN {<<MInf, PInf>>, <<I(0), PInf>>, <<MInf, I(1)>>, <<I(0), I(1)>>,
          <<I(0), I(0)>>, <<I(1), I(0)>>, <<I(0), MInf>>, <<PInf, I(1)>>,
          <<PInf, PInf>>, <<MInf, MInf>>}
    ELSE {<<MInf, PInf>>, <<I(0), I(1)>>, <<I(0), I(0)>>, <<I(1), I(0)>>}
StartValues(n) == IF n = 1 THEN {I(-1), I(0), I(2)} ELSE {I(0), I(2)}
MultiplierValues(n) == IF n = 1 THEN {I(-1), I(0), I(1)} ELSE {I(0), I(1)}

InitialMemory(nx, na, h, g, a, bz, x0, lam0) ==
  [nx |-> nx, na |-> na, nz |-> nx + na,
   h |-> h, g |-> g, a |-> a, du_to_pr |-> DuToPr,
   z |-> [i \in 0..(nx + na - 1) |-> IF i < nx THEN x0[i] ELSE Zero],
   lbz |-> [i \in 0..(nx + na - 1) |-> bz[i][1]],
   ubz |-> [i \in 0..(nx + na - 1) |-> bz[i][2]],
   lam |-> lam0,
   infeas |-> ZeroVec(nx), tinfeas |-> ZeroVec(nx),
   dz |-> ZeroVec(nx + na), dlam |-> ZeroVec(nx + na),
   neverzero |-> [i \in 0..(nx + na - 1) |-> FALSE],
   neverupper |-> [i \in 0..(nx + na - 1) |-> FALSE],
   neverlower |-> [i \in 0..(nx + na - 1) |-> FALSE],
   f |-> Zero, tau |-> Zero, sing |-> 0,
   pr |-> Zero, du |-> Zero, ipr |-> -1, idu |-> -1,
   kkt |-> [p \in (0..(nx + na - 1)) \X (0..(nx + na - 1)) |-> 0]]

NoResult == [x |-> <<>>, f |-> Zero, lam_x |-> <<>>, lam_a |-> <<>>]

Init ==
  /\ \E d \in Dims :
       \E h \in HessianOf(d[1]), g \in Vec(d[1], GradientValues),
          a \in Mat(d[2], d[1], JacobianValues),
          bz \in Vec(d[1] + d[2], BoundPairs(d[1] + d[2])),
          x0 \in Vec(d[1], StartValues(d[1] + d[2])),
          lam0 \in Vec(d[1] + d[2], MultiplierValues(d[1] + d[2])) :
         qp_m = InitialMemory(d[1], d[2], h, g, a, bz, x0, lam0)
  /\ pc = "entry"
  /\ index = -2 /\ sign = 0 /\ r_index = -2 /\ r_sign = 0
  /\ iter = 0 /\ flag = -1 /\ res = NoResult
  /\ npass = 0 /\ nstep = 0

\* NeverZero taking crossed bounds for equal ones
NeverZero_or_crossed(m, i) == Ge(m.lbz[i], m.ubz[i])

\* Permitted signs for lam (eval, the loop at entry)
NeverZero(m, i) == Eq(m.lbz[i], m.ubz[i])
NeverUpper(m, i) == isinf(m.ubz[i])
NeverLower(m, i) == isinf(m.lbz[i])

\* NoSignPossible without the test of neverzero
NoSignPossible_unbounded(m, i) == NeverUpper(m, i) /\ NeverLower(m, i)

NoSignPossible(m, i) == NeverZero(m, i) /\ NeverUpper(m, i) /\ NeverLower(m, i)

\* CorrectLam leaving the initial multipliers as given
CorrectLam_kept(m, i, closer) == m.lam[i]

\* Correction of the initial active set.  closer[i] is the outcome of
\* z[i]-lbz[i] <= ubz[i]-z[i]; for i >= nx it reads z[i] before it is set
CorrectLam(m, i, closer) ==
  IF NeverZero(m, i) /\ Eq(m.lam[i], Zero)
    THEN (IF NeverUpper(m, i) \/ closer[i] THEN Neg(DMIN) ELSE DMIN)
  ELSE IF NeverUpper(m, i) /\ Gt(m.lam[i], Zero)
    THEN (IF NeverZero(m, i) THEN Neg(DMIN) ELSE Zero)
  ELSE IF NeverLower(m, i) /\ Lt(m.lam[i], Zero)
    THEN (IF NeverZero(m, i) THEN DMIN ELSE Zero)
  ELSE m.lam[i]

Closer(m, i) == Le(Sub(m.z[i], m.lbz[i]), Sub(m.ubz[i], m.z[i]))

Entry ==
  /\ pc = "entry"
  /\ IF \E i \in 0..(qp_m.nz - 1) : NoSignPossible(qp_m, i)
       THEN /\ pc' = "rejected"
            /\ UNCHANGED qp_m
       ELSE /\ pc' = "calc_dependent"
            /\ \E closer \in [0..(qp_m.nz - 1) -> BOOLEAN] :
                 /\ \A i \in 0..(qp_m.nz - 1) :
                      IF i >= qp_m.nx /\ NeverZero(qp_m, i) /\ Eq(qp_m.lam[i], Zero)
                           /\ ~NeverUpper(qp_m, i)
                        THEN TRUE
                        ELSE closer[i] = Closer(qp_m, i)
                 /\ qp_m' = [qp_m EXCEPT
                      !.neverzero = [i \in 0..(qp_m.nz - 1) |-> NeverZero(qp_m, i)],
                      !.neverupper = [i \in 0..(qp_m.nz - 1) |-> NeverUpper(qp_m, i)],
                      !.neverlower = [i \in 0..(qp_m.nz - 1) |-> NeverLower(qp_m, i)],
                      !.lam = [i \in 0..(qp_m.nz - 1) |-> CorrectLam(qp_m, i, closer)],
                      !.tau = Zero, !.sing = 0]
  /\ UNCHANGED <<index, sign, r_index, r_sign, iter, flag, res, npass, nstep>>

CalcDependent ==
  /\ pc = "calc_dependent"
  /\ qp_m' = casadi_qp_calc_dependent(qp_m)
  /\ npass' = npass + 1
  /\ pc' = "flip"
  /\ UNCHANGED <<index, sign, r_index, r_sign, iter, flag, res, nstep>>

Flip ==
  /\ pc = "flip"
  /\ \E r \in {casadi_qp_flip(qp_m, index, sign, r_index, r_sign)} :
        /\ qp_m' = r[1]
        /\ index' = r[2]
        /\ sign' = r[3]
  /\ pc' = "factorize"
  /\ UNCHANGED <<r_index, r_sign, iter, flag, res, npass, nstep>>

Factorize ==
  /\ pc = "factorize"
  /\ qp_m' = casadi_qp_factorize(qp_m)
  /\ pc' = "test"
  /\ UNCHANGED <<index, sign, r_index, r_sign, iter, flag, res, npass, nstep>>

\* Test with the cap test before the success test
Test_cap_first ==
  /\ pc = "test"
  /\ IF iter >= MaxIter THEN /\ flag' = 1 /\ pc' = "return" /\ iter' = iter
     ELSE IF index = -1 THEN /\ flag' = 0 /\ pc' = "return" /\ iter' = iter
     ELSE /\ iter' = iter + 1 /\ pc' = "calc_step" /\ flag' = flag
  /\ UNCHANGED <<qp_m, index, sign, r_index, r_sign, res, npass, nstep>>

Test ==
  /\ pc = "test"
  /\ IF index = -1 THEN /\ flag' = 0 /\ pc' = "return" /\ iter' = iter
     ELSE IF iter >= MaxIter THEN /\ flag' = 1 /\ pc' = "return" /\ iter' = iter
     ELSE /\ iter' = iter + 1 /\ pc' = "calc_step" /\ flag' = flag
  /\ UNCHANGED <<qp_m, index, sign, r_index, r_sign, res, npass, nstep>>

CalcStep ==
  /\ pc = "calc_step"
  /\ \E s \in {-1, 1}, oob \in {"none", "neg", "pos"} :
       /\ qp_m.sing = 0 => s = 1
       /\ ~(qp_m.sing # 0 /\ qp_m.ipr < 0
            /\ Ge(Mul(I(qp_m.du_to_pr), qp_m.pr), qp_m.du)) => oob = "none"
       /\ \E r \in {casadi_qp_calc_step(qp_m, s, oob)} :
             /\ qp_m' = r[4]
             /\ r_index' = r[2]
             /\ r_sign' = r[3]
             /\ IF r[1] # 0 THEN /\ flag' = 1 /\ pc' = "return"
                ELSE /\ flag' = flag /\ pc' = "linesearch"
  /\ nstep' = nstep + 1
  /\ UNCHANGED <<index, sign, iter, res, npass>>

Linesearch ==
  /\ pc = "linesearch"
  /\ \E r \in {casadi_qp_linesearch(qp_m)} :
        /\ qp_m' = r[1]
        /\ index' = r[2]
        /\ sign' = r[3]
  /\ pc' = "calc_dependent"
  /\ UNCHANGED <<r_index, r_sign, iter, flag, res, npass, nstep>>

Return ==
  /\ pc = "return"
  /\ res' = [x |-> [i \in 0..(qp_m.nx - 1) |-> qp_m.z[i]],
             f |-> qp_m.f,
             lam_x |-> [i \in 0..(qp_m.nx - 1) |-> qp_m.lam[i]],
             lam_a |-> [i \in 0..(qp_m.na - 1) |-> qp_m.lam[qp_m.nx + i]]]
  /\ pc' = "done"
  /\ UNCHANGED <<qp_m, index, sign, r_index, r_sign, iter, flag, npass, nstep>>

Next ==
  \/ Entry
  \/ CalcDependent
  \/ Flip
  \/ Factorize
  \/ Test
  \/ CalcStep
  \/ Linesearch
  \/ Return

Spec == Init /\ [][Next]_vars

---------------------------------------------------------------------------
(* Properties of eval.  InLoop holds from the entry of the driver loop on. *)

Indices == 0..(qp_m.nz - 1)
InLoop == pc \notin {"entry", "rejected"}
LamSign(a) == IF Gt(a, Zero) THEN 1 ELSE IF Lt(a, Zero) THEN -1 ELSE 0
ActiveSet(m) == {i \in 0..(m.nz - 1) : Ne(m.lam[i], Zero)}

\* No lower bound is +inf and no upper bound is -inf
ProperBounds ==
  \A i \in Indices : ~Eq(qp_m.lbz[i], PInf) /\ ~Eq(qp_m.ubz[i], MInf)

\* The bounds are ordered, no lower bound is +inf and no upper bound is -inf
WellPosed ==
  \A i \in Indices :
    /\ Le(qp_m.lbz[i], qp_m.ubz[i])
    /\ ~Eq(qp_m.lbz[i], PInf) /\ ~Eq(qp_m.ubz[i], MInf)

\* Some index has equal, infinite bounds
NoSignIndex ==
  \E i \in Indices :
    Eq(qp_m.lbz[i], qp_m.ubz[i]) /\ isinf(qp_m.ubz[i]) /\ isinf(qp_m.lbz[i])

CrossedIndex(i) == Gt(qp_m.lbz[i], qp_m.ubz[i])

SignsPermitted ==
  \A i \in Indices :
    /\ Gt(qp_m.lam[i], Zero) => ~qp_m.neverupper[i]
    /\ Lt(qp_m.lam[i], Zero) => ~qp_m.neverlower[i]

C2_EqualityNeverInactive ==
  (WellPosed /\ pc \in {"calc_dependent", "return"}) =>
    \A i \in Indices : Eq(qp_m.lam[i], Zero) => ~qp_m.neverzero[i]

\* tol_, the configured tolerance (its default)
tol == <<1, 100000000, 0>>

\* C3, as stated, on the problems with well-posed bounds: whenever eval
\* returns 0, pr <= tol*(1 + max|z_i|) and
\* du <= tol*(1 + max|g_i| + max|lam_i|); a bound by the largest entry is a
\* bound by some entry
C3_OptimalToTolerance ==
  (WellPosed /\ pc = "return" /\ flag = 0) =>
    /\ \E i \in Indices :
         Le(qp_m.pr, Mul(tol, Add(I(1), fabs(qp_m.z[i]))))
    /\ \E j \in 0..(qp_m.nx - 1), i \in Indices :
         Le(qp_m.du, Mul(tol, Add(Add(I(1), fabs(I(qp_m.g[j]))),
                                  fabs(qp_m.lam[i]))))

\* C4: the return code is 0 exactly when the loop is left through the
\* index = -1 test and 1 exactly when it is left through the iteration cap
\* or a failure of calc_step; on every exit X, LAM_X, LAM_A are the current
\* z[0..nx), lam and COST is x'Hx/2 + g'x at the returned X
C4_ExitCodesAndOutputs ==
  [][/\ (pc # "return" /\ pc' = "return") =>
          \/ pc = "test" /\ index = -1 /\ flag' = 0
          \/ pc = "test" /\ index # -1 /\ iter >= MaxIter /\ flag' = 1
          \/ pc = "calc_step" /\ flag' = 1
     /\ pc = "return" =>
          /\ pc' = "done" /\ flag' = flag
          /\ res'.x = [i \in 0..(qp_m.nx - 1) |-> qp_m.z[i]]
          /\ res'.lam_x = [i \in 0..(qp_m.nx - 1) |-> qp_m.lam[i]]
          /\ res'.lam_a = [i \in 0..(qp_m.na - 1) |-> qp_m.lam[qp_m.nx + i]]
          /\ res'.f = Add(Div(casadi_bilin(qp_m.h, qp_m.nx, res'.x, res'.x), I(2)),
                          casadi_dot(qp_m.nx, res'.x,
                                     [i \in 0..(qp_m.nx - 1) |-> I(qp_m.g[i])]))
    ]_vars

\* eval has returned 1 after a failure of calc_step, at a point that moved
C4_Witness ==
  /\ pc = "done" /\ flag = 1 /\ iter < MaxIter /\ iter >= 2
  /\ res.f # Zero

\* The passes that remain, then the steps that remain in the pass
LoopMeasure ==
  8 * (MaxIter + 1 - npass)
  + (CASE pc = "flip" -> 7
       [] pc = "factorize" -> 6
       [] pc = "test" -> 5
       [] pc = "calc_step" -> 4
       [] pc \in {"linesearch", "entry"} -> 3
       [] pc = "calc_dependent" -> 2
       [] pc = "return" -> 1
       [] OTHER -> 0)

\* C5: the driver loop terminates: calc_step is invoked at most max_iter
\* times and the loop body runs at most max_iter + 1 times, so that every
\* step of eval decreases the measure of what remains; the success test
\* comes before the cap test: a pass with index = -1 returns 0 whatever
\* iter is
C5_Terminates ==
  [][/\ nstep' <= MaxIter /\ npass' <= MaxIter + 1
     /\ LoopMeasure' < LoopMeasure /\ LoopMeasure' >= 0
     /\ (pc = "test" /\ index = -1) => (flag' = 0 /\ pc' = "return")
    ]_vars

\* A pass with iter = max_iter and index = -1 has returned 0
C5_Witness ==
  pc = "return" /\ flag = 0 /\ iter = MaxIter /\ nstep = MaxIter
  /\ npass = MaxIter + 1

SelectorProposes(m) ==
  IF Ge(Mul(I(m.du_to_pr), m.pr), m.du)
    THEN (IF m.ipr >= 0 THEN casadi_qp_pr_index(m, 0)[1] ELSE -1)
    ELSE (IF m.idu >= 0 THEN casadi_qp_du_index(m, 0)[1] ELSE -1)

\* C8, as stated: whenever eval returns 0, the step length tau of the last
\* line search is at most 1e-16 and pr_index (when du_to_pr*pr >= du) or
\* du_index (otherwise) would return no candidate
C8_TauCollapsedNoCandidate ==
  (pc = "return" /\ flag = 0) =>
    (AtMostThreshold(qp_m.tau) /\ SelectorProposes(qp_m) = -1)

\* C8, amended: whenever eval returns 0, the last line search reported no
\* blocking constraint and either its step length tau is at most 1e-16, or
\* the iterate has no primal and no dual infeasibility (ipr < 0, idu < 0),
\* or pr_index (when du_to_pr*pr >= du) or du_index (otherwise) returned no
\* candidate
C8_NoChangeAtReturn ==
  (pc = "return" /\ flag = 0) =>
    /\ index = -1 /\ nstep >= 1
    /\ \/ AtMostThreshold(qp_m.tau)
       \/ qp_m.ipr < 0 /\ qp_m.idu < 0
       \/ SelectorProposes(qp_m) = -1

\* eval returns 0 after a step of ordinary length at an iterate that is
\* infeasible, the selector having found no candidate
C8_Witness ==
  /\ pc = "return" /\ flag = 0 /\ AboveThreshold(qp_m.tau)
  /\ (qp_m.ipr >= 0 \/ qp_m.idu >= 0)

\* C9: within a pass of the driver loop the set of active constraints
\* changes only inside flip, and flip changes the activity of at most the
\* chosen index and one companion; calc_dependent, calc_step and linesearch
\* activate or deactivate nothing
C9_ActivityChangesOnlyInFlip ==
  [][/\ (InLoop /\ pc # "flip") => ActiveSet(qp_m') = ActiveSet(qp_m)
     /\ pc = "flip" =>
          \E chosen \in {flip_pick(qp_m, fmax(Mul(I(qp_m.du_to_pr), qp_m.pr),
                                              qp_m.du),
                                   index, sign, r_index, r_sign)[1]} :
            \E changed \in {(ActiveSet(qp_m') \ ActiveSet(qp_m))
                            \cup (ActiveSet(qp_m) \ ActiveSet(qp_m'))} :
              /\ Cardinality(changed) <= 2
              /\ Cardinality(changed \ {chosen}) <= 1
              /\ chosen < 0 => changed = {}
    ]_vars

\* flip has committed a change of the active set in a pass after the first
C9_Witness ==
  /\ pc = "factorize" /\ index = -2 /\ npass >= 2
  /\ ActiveSet(qp_m) # {} /\ ActiveSet(qp_m) # Indices

\* C10, as stated, on the problems with well-posed bounds and a chosen index
\* that is no equality constraint: when flip has chosen (index, sign) with K
\* nonsingular and flip_check finds the flipped column linearly dependent
\* and selects a companion (r_index >= 0, r_sign), flip commits both
\* changes: the sign of lam_{r_index} becomes r_sign and that of lam_index
\* becomes sign
C10_FlipCommitsCompanion ==
  [][(WellPosed /\ pc = "flip") =>
       \E e \in {fmax(Mul(I(qp_m.du_to_pr), qp_m.pr), qp_m.du)} :
         \E pick \in {flip_pick(qp_m, e, index, sign, r_index, r_sign)} :
           (pick[1] >= 0 /\ qp_m.sing = 0 /\ ~qp_m.neverzero[pick[1]]) =>
             \E fc \in {casadi_qp_flip_check(qp_m, pick[1], pick[2],
                                             r_index, r_sign, e)} :
               (~AbsAtLeastThreshold(fc[4][pick[1]]) /\ fc[2] >= 0) =>
                 /\ LamSign(qp_m'.lam[fc[2]]) = fc[3]
                 /\ LamSign(qp_m'.lam[pick[1]]) = pick[2]
    ]_vars

\* The (index, sign) flip acts on in the current state
FlipChoice ==
  flip_pick(qp_m, fmax(Mul(I(qp_m.du_to_pr), qp_m.pr), qp_m.du),
            index, sign, r_index, r_sign)

\* C11, as stated, on the problems with well-posed bounds: every
\* (index, sign) committed by flip toggles the activity of index: a sign
\* other than 0 is committed only when lam_index = 0 beforehand and sign 0
\* only when lam_index is nonzero beforehand
C11_FlipToggles ==
  (pc = "flip" /\ WellPosed /\ FlipChoice[1] >= 0) =>
    /\ FlipChoice[2] # 0 => Eq(qp_m.lam[FlipChoice[1]], Zero)
    /\ FlipChoice[2] = 0 => Ne(qp_m.lam[FlipChoice[1]], Zero)

\* The slack part of z is A times its primal part
SlackConsistent(m) ==
  \A r \in 0..(m.na - 1) : m.z[m.nx + r] = mv_row(m.a, m.nx, m.z, Zero, r)

\* C12: where the driver tests for termination and at every return of eval
\* z_i = (A*x)_i for every i in [n, N), and no operation between the last
\* calc_dependent and a return (flip, factorize, the test, calc_step)
\* modifies z
C12_SlackConsistent ==
  [][/\ pc' \in {"test", "return", "done"} => SlackConsistent(qp_m')
     /\ pc \in {"flip", "factorize", "test", "calc_step", "return"} =>
          qp_m'.z = qp_m.z
    ]_vars

\* eval returns from a problem with a constraint row at a point that moved
C12_Witness ==
  /\ pc = "return" /\ qp_m.na = 1 /\ npass >= 2
  /\ Ne(qp_m.z[1], Zero) /\ qp_m.z[1] = qp_m.z[0]
  /\ AboveThreshold(fabs(qp_m.tau))

\* What calc_dependent computes
Dependent(m) ==
  <<m.f, [i \in m.nx..(m.nz - 1) |-> m.z[i]], m.lam, m.infeas,
    m.pr, m.ipr, m.du, m.idu>>

\* C13: calc_dependent is idempotent: from any state of the driver loop,
\* running it twice yields the same f, z[n..N), lam, infeas, pr, ipr, du, idu
\* as running it once; it never changes the sign of a lam_i (zero stays
\* zero, positive stays >= DMIN, negative stays <= -DMIN) and never modifies
\* lam_i for i >= n
C13_CalcDependentIdempotent ==
  InLoop =>
    \E once \in {casadi_qp_calc_dependent(qp_m)} :
      /\ Dependent(casadi_qp_calc_dependent(once)) = Dependent(once)
      /\ \A i \in Indices :
           /\ Eq(qp_m.lam[i], Zero) => once.lam[i] = Zero
           /\ Gt(qp_m.lam[i], Zero) => Ge(once.lam[i], DMIN)
           /\ Lt(qp_m.lam[i], Zero) => Le(once.lam[i], Neg(DMIN))
           /\ i >= qp_m.nx => once.lam[i] = qp_m.lam[i]

\* calc_dependent is about to run on a state whose multipliers it moves
C13_Witness ==
  /\ pc = "calc_dependent" /\ npass >= 1
  /\ \E i \in 0..(qp_m.nx - 1) :
       /\ Ne(qp_m.lam[i], Zero)
       /\ casadi_qp_calc_dependent(qp_m).lam[i] # qp_m.lam[i]
  /\ casadi_qp_calc_dependent(qp_m).f # qp_m.f

\* No constraint rows, all bounds infinite, H nonsingular
Unconstrained ==
  /\ qp_m.na = 0
  /\ \A i \in Indices : qp_m.lbz[i] = MInf /\ qp_m.ubz[i] = PInf
  /\ casadi_qr_singular(qp_m.h, qp_m.nx) = 0

\* H*v + w = 0
NewtonEquation(v, w) ==
  \A i \in 0..(qp_m.nx - 1) : mv_row(qp_m.h, qp_m.nx, v, w[i], i) = Zero

\* C14: for a problem with no constraint rows, all bounds infinite and H
\* nonsingular, from any x0 and lam0: the first direction is the Newton step
\* (H*dz = -(g + H*x0)), the line search takes tau = 1 with no blocking
\* index, and eval returns 0 with iter = 1 and H*X + g = 0
C14_NewtonInOneIteration ==
  Unconstrained =>
    /\ npass <= 2 /\ nstep <= 1 /\ flag # 1
    /\ pc = "linesearch" =>
         /\ iter = 1
         /\ NewtonEquation(qp_m.dz, qp_m.infeas)
    /\ (pc = "calc_dependent" /\ npass = 1) =>
         qp_m.tau = I(1) /\ index = -1
    /\ pc \in {"return", "done"} =>
         /\ flag = 0 /\ iter = 1 /\ nstep = 1
         /\ NewtonEquation(qp_m.z, [i \in 0..(qp_m.nx - 1) |-> I(qp_m.g[i])])

\* eval has returned the minimizer -1/2 of x^2 + x
C14_Witness ==
  /\ pc = "done" /\ Unconstrained /\ flag = 0
  /\ qp_m.h = [p \in {<<0, 0>>} |-> 2] /\ qp_m.g[0] = 1
  /\ res.x[0] = Q(-1, 2)

\* The outcome of flip_check on the choice of flip, <<ret, r_index, r_sign, dz>>
FlipCheckOutcome ==
  casadi_qp_flip_check(qp_m, FlipChoice[1], FlipChoice[2], r_index, r_sign,
                       fmax(Mul(I(qp_m.du_to_pr), qp_m.pr), qp_m.du))

\* flip has a candidate, K is nonsingular and flip_check fails
FlipCheckFails ==
  /\ pc = "flip" /\ FlipChoice[1] >= 0 /\ qp_m.sing = 0
  /\ FlipCheckOutcome[1] # 0

\* C15, as stated, on the problems with well-posed bounds and a candidate
\* that is no equality constraint: when flip has a candidate (index, sign),
\* K is nonsingular and flip_check fails (the flipped column is dependent
\* and no admissible companion exists), flip commits nothing in that pass:
\* the activity of every lam_i, that of lam_index included, is left
\* unchanged
C15_FailedCheckCommitsNothing ==
  [][(WellPosed /\ FlipCheckFails /\ ~qp_m.neverzero[FlipChoice[1]]) =>
       \A i \in Indices : LamSign(qp_m'.lam[i]) = LamSign(qp_m.lam[i])]_vars

\* C15, amended: when flip has a candidate (index, sign), K is nonsingular
\* and flip_check fails, flip commits the candidate alone: the sign of
\* lam_index becomes sign and the activity of every other lam_i is left
\* unchanged
C15_FailedCheckCommitsCandidate ==
  [][FlipCheckFails =>
       \A i \in Indices :
         LamSign(qp_m'.lam[i]) =
           IF i = FlipChoice[1] THEN FlipChoice[2]
           ELSE LamSign(qp_m.lam[i])]_vars

\* flip_check fails on a candidate whose commit changes the activity of
\* lam_index
C15_Witness ==
  /\ FlipCheckFails /\ WellPosed /\ ~qp_m.neverzero[FlipChoice[1]]
  /\ LamSign(casadi_qp_flip(qp_m, index, sign, r_index, r_sign)[1]
               .lam[FlipChoice[1]]) # LamSign(qp_m.lam[FlipChoice[1]])

\* The outcomes the reads lam[ipr], dlam[ipr] of scale_step can have in the
\* current state
OobChoices ==
  IF qp_m.sing # 0 /\ qp_m.ipr < 0
     /\ Ge(Mul(I(qp_m.du_to_pr), qp_m.pr), qp_m.du)
    THEN {"none", "neg", "pos"} ELSE {"none"}

\* The adopted tau has a sign that ok admits
scale_step_admissible(ok, best) ==
  /\ Gt(best[1], Zero) => ok.pos_ok
  /\ Lt(best[1], Zero) => ok.neg_ok

\* C16, on the problems with well-posed bounds and the states where every
\* read of scale_step is in range: when scale_step succeeds on a singular K,
\* the adopted tau has an admissible sign for every kind of candidate:
\* tau > 0 only if pos_ok and tau < 0 only if neg_ok, for activation
\* candidates (lam_i = 0) as for deactivation candidates (lam_i # 0)
C16_AdoptedTauAdmissible ==
  (pc = "calc_step" /\ qp_m.sing # 0 /\ WellPosed /\ OobChoices = {"none"}) =>
    \A s \in {-1, 1} :
      \E d \in {calc_step_direction(qp_m, s)} :
        \E best \in {scale_step_best(d, "none")} :
          best[2] >= 0 =>
            scale_step_admissible(scale_step_ok(d, "none"), best)

\* The recovery target of the last calc_step is acceptable to flip
RecoveryAccepted ==
  /\ r_index >= 0
  /\ \/ r_sign # 0
     \/ Le(casadi_qp_du_check(qp_m, r_index),
           fmax(Mul(I(qp_m.du_to_pr), qp_m.pr), qp_m.du))

\* flip may consult pr_index or du_index
SelectorConsulted ==
  index = -1 /\ AboveThreshold(qp_m.tau) /\ (qp_m.ipr >= 0 \/ qp_m.idu >= 0)

\* The result of the selector flip consults, <<index, sign>>
SelectorResult ==
  IF Ge(Mul(I(qp_m.du_to_pr), qp_m.pr), qp_m.du)
    THEN casadi_qp_pr_index(qp_m, sign)
    ELSE casadi_qp_du_index(qp_m, sign)

\* C17: flip commits the recovery target (r_index, r_sign), overriding any
\* blocking index of the line search, exactly when r_index >= 0 and
\* (r_sign # 0 or du_check(r_index) <= max(du_to_pr*pr, du)); otherwise the
\* recovery target is ignored, and pr_index or du_index is consulted only if
\* the line search reported index = -1, tau > 1e-16 and ipr >= 0 or idu >= 0
C17_RecoveryTargetFirst ==
  [][pc = "flip" =>
       IF RecoveryAccepted
         THEN /\ index' = -2 /\ sign' = r_sign
              /\ \A i \in Indices :
                   LamSign(qp_m'.lam[i]) =
                     IF i = r_index THEN r_sign ELSE LamSign(qp_m.lam[i])
       ELSE IF SelectorConsulted
         THEN /\ index' = (IF SelectorResult[1] >= 0 THEN -2
                           ELSE SelectorResult[1])
              /\ sign' = SelectorResult[2]
       ELSE IF index >= 0
         THEN /\ index' = -2 /\ sign' = sign
              /\ LamSign(qp_m'.lam[index]) = sign
              /\ (r_index >= 0 /\ r_index # index) =>
                    LamSign(qp_m'.lam[r_index]) = LamSign(qp_m.lam[r_index])
       ELSE qp_m' = qp_m /\ index' = index /\ sign' = sign]_vars

\* flip accepts a recovery target while the line search reported another,
\* blocking index
C17_Witness ==
  /\ pc = "flip" /\ RecoveryAccepted /\ index >= 0 /\ index # r_index
  /\ LamSign(qp_m.lam[r_index]) # r_sign

\* The step length the line search hands to dual_blocking
PrimalTau ==
  casadi_qp_primal_blocking([qp_m EXCEPT !.tau = I(1)],
                            fmax(qp_m.pr, Div(qp_m.du, I(qp_m.du_to_pr))),
                            -1, 0)[1]

\* The list dual_blocking receives from dual_breakpoints
Breakpoints == casadi_qp_dual_breakpoints(qp_m, PrimalTau)

\* lam_i is nonzero and changes sign strictly within the step tau
Crosses(m, tau, i) ==
  /\ Ne(m.lam[i], Zero) /\ Ne(m.dlam[i], Zero)
  /\ IF Gt(m.lam[i], Zero)
       THEN Lt(Add(m.lam[i], Mul(tau, m.dlam[i])), Zero)
       ELSE Gt(Add(m.lam[i], Mul(tau, m.dlam[i])), Zero)

TrialNumbers(m, tau) ==
  \A i \in 0..(m.nz - 1) : ~IsNaN(Add(m.lam[i], Mul(tau, m.dlam[i])))

TrialLam(m, tau, i) == Add(m.lam[i], Mul(tau, m.dlam[i]))

\* C19: take_step preserves activity and sign: lam_i = 0 stays 0; lam_i # 0
\* with neverzero false keeps its sign with |lam_i| >= DMIN; lam_i # 0 with
\* neverzero true ends nonzero with |lam_i| >= DMIN, taking the sign of
\* lam_i + tau*dlam_i when that is strictly opposite and its prior sign
\* otherwise
C19_TakeStepKeepsActivity ==
  [][pc = "linesearch" =>
       \A i \in Indices :
         IF Eq(qp_m.lam[i], Zero) THEN qp_m'.lam[i] = Zero
         ELSE /\ Ge(fabs(qp_m'.lam[i]), DMIN)
              /\ LamSign(qp_m'.lam[i]) =
                   IF qp_m.neverzero[i]
                      /\ LamSign(TrialLam(qp_m, qp_m'.tau, i))
                           = -LamSign(qp_m.lam[i])
                     THEN -LamSign(qp_m.lam[i])
                     ELSE LamSign(qp_m.lam[i])]_vars

\* The line search is about to carry the nonzero multiplier of an equality
\* constraint to the opposite sign
C19_Witness ==
  /\ pc = "linesearch"
  /\ \E i \in Indices :
       /\ qp_m.neverzero[i] /\ Ne(qp_m.lam[i], Zero)
       /\ LamSign(casadi_qp_linesearch(qp_m)[1].lam[i]) = -LamSign(qp_m.lam[i])

\* C20, on the problems with well-posed bounds: every array access indexed
\* by ipr is in range: whenever calc_step is called with K singular and
\* du_to_pr*pr >= du, so that scale_step evaluates lam[ipr] and dlam[ipr],
\* ipr >= 0
C20_IprInRange ==
  (pc = "calc_step" /\ WellPosed /\ qp_m.sing # 0
   /\ Ge(Mul(I(qp_m.du_to_pr), qp_m.pr), qp_m.du)) => qp_m.ipr >= 0

\* The length of the integer scratch iw that eval hands to the kernels: the
\* temporary allocation of nx + na entries that is left after neverzero,
\* neverupper and neverlower
sz_iw(m) == m.nx + m.na

\* C21, on the problems with well-posed bounds: the number of entries
\* dual_breakpoints writes into the integer scratch iw (ind_list of
\* dual_blocking) never exceeds the length N = nx + na of that scratch, also
\* when every index has lam_i # 0 and changes sign within the step
C21_BreakpointsFit ==
  (pc = "linesearch" /\ WellPosed) => Len(Breakpoints) <= sz_iw(qp_m)

====
